---- MODULE Spec2Model ----
(***************************************************************************)
(* A model of "study" (src/main.go): a retrieval augmented generation      *)
(* server.  At startup LoadReferences embeds every regular file of the     *)
(* references directory into the global slice `references`; afterwards     *)
(* net/http runs Handler once per request, each in its own goroutine.      *)
(*                                                                         *)
(* External collaborators (the embedding and completion endpoints, the     *)
(* file system) answer nondeterministically.  A handler is cut into steps  *)
(* at its blocking external calls: one step performs the call and runs the *)
(* code up to the next call.                                               *)
(*                                                                         *)
(* Embeddings are small integer vectors.  A similarity score is kept       *)
(* exactly, as the triple (dotProduct, aMagnitude^2, bMagnitude^2) that    *)
(* CalculateSimilarity accumulates, and compared with the threshold by     *)
(* integer arithmetic.                                                     *)
(***************************************************************************)
EXTENDS Integers, Sequences, FiniteSets, TLC

VARIABLES
    phase,       \* "loading" | "serving" | "exited" (os.Exit or a crash of main)
    dirEntries,  \* what os.ReadDir(referencesPath) lists, sorted by file name
    loadIdx,     \* LoadReferences: 0 before os.ReadDir, then the entry in hand
    references,  \* the package-level slice `references` (the fact store)
    generated,   \* history: the (text, embedding) pairs produced while loading
    req,         \* per request: the state of its Handler goroutine
    simA,        \* lookup development: the query embedding
    simOut,      \* lookup development: what the scan of FindReference returned
    simPair      \* lookup development: what CalculateSimilarity returned

vars == <<phase, dirEntries, loadIdx, references, generated, req,
          simA, simOut, simPair>>

----------------------------------------------------------------------------
(* Bounds *)

MaxQueries == 2
MaxDim == 3

(* similarityThreshold = 0.5, kept as the fraction ThresholdNum / ThresholdDen *)
ThresholdNum == 1
ThresholdDen == 2

(* The goroutines net/http runs Handler in, one per request. *)
Requests == {"r1", "r2"}

Methods == {"POST", "GET", "PUT"}

(* Query texts.  The code never looks inside a query, so what matters is    *)
(* whether a query of the model's is the user's text ("q1") or another one. *)
UserQueries == {"q1"}

Queries == {"q1", "q2"}

(* The lists of queries the model may answer the expansion prompt with. *)
QuerySeqs == UNION {[1..n -> Queries] : n \in 0..MaxQueries}

(* The vectors the embedding endpoint answers with while serving (one model, *)
(* one dimensionality).                                                      *)
Embeddings == {<<1, 0>>, <<0, 1>>}

----------------------------------------------------------------------------
(* Pure helpers *)

RECURSIVE SumTo(_, _)
SumTo(f, n) == IF n = 0 THEN 0 ELSE f[n] + SumTo(f, n - 1)

(* CalculateSimilarity, src/main.go 290-305.  The loop runs i over the      *)
(* indices of a and reads b[i]: when a is longer than b the read at         *)
(* i = len(b) is a run-time panic (index out of range); when a is not       *)
(* longer, only the first len(a) components of b are read.  The score is    *)
(* dot / (sqrt(aMag2) * sqrt(bMag2)); it is NaN when that product is 0.     *)
CalculateSimilarity(a, b) ==
    IF Len(a) > Len(b)
    THEN [kind |-> "panic", dot |-> 0, aMag2 |-> 0, bMag2 |-> 0]
    ELSE [kind  |-> "score",
          dot   |-> SumTo([i \in 1..Len(a) |-> a[i] * b[i]], Len(a)),
          aMag2 |-> SumTo([i \in 1..Len(a) |-> a[i] * a[i]], Len(a)),
          bMag2 |-> SumTo([i \in 1..Len(a) |-> b[i] * b[i]], Len(a))]

IsNaN(s) == s.aMag2 * s.bMag2 = 0

(* float64 arithmetic of lines 301-304.  The sums dot, aMag2 and bMag2 of   *)
(* integer components are exact; math.Sqrt and the product of the two       *)
(* magnitudes round to 53 bits.  A 53-bit significand is kept as two words  *)
(* [hi, lo] in base 2^28 while the root is extracted, and as a              *)
(* little-endian sequence of limbs in base 2^14 for the product.            *)
WordBase == 2^28

LimbBase == 2^14

WideLess(x, y) == x.hi < y.hi \/ (x.hi = y.hi /\ x.lo < y.lo)

WideSub(x, y) ==
    IF x.lo >= y.lo THEN [hi |-> x.hi - y.hi, lo |-> x.lo - y.lo]
    ELSE [hi |-> x.hi - y.hi - 1, lo |-> x.lo - y.lo + WordBase]

(* x * m + c for small m and c. *)
WideScale(x, m, c) ==
    [hi |-> x.hi * m + (x.lo * m + c) \div WordBase, lo |-> (x.lo * m + c) % WordBase]

(* One binary digit of a square root, by the schoolbook method: bring down *)
(* two bits, try 4 * res + 1.                                              *)
SqrtStep(st, pair) ==
    LET rem4  == WideScale(st.rem, 4, pair)
        trial == WideScale(st.res, 4, 1)
    IN  IF WideLess(rem4, trial)
        THEN [res |-> WideScale(st.res, 2, 0), rem |-> rem4, k |-> st.k]
        ELSE [res |-> WideScale(st.res, 2, 1), rem |-> WideSub(rem4, trial),
              k |-> st.k]

(* The digits of sqrt(n), n an integer in 1..2^31-1: bit pair j of n while *)
(* j >= 0 (16 pairs, from the top), then k fraction digits, until res has  *)
(* 53 bits (bit 52 is bit 24 of the high word).                            *)
RECURSIVE SqrtDigits(_, _, _)
SqrtDigits(st, n, j) ==
    IF st.res.hi >= 2^24 /\ j < 0 THEN st
    ELSE IF j >= 0 THEN SqrtDigits(SqrtStep(st, (n \div 4^j) % 4), n, j - 1)
    ELSE SqrtDigits([SqrtStep(st, 0) EXCEPT !.k = st.k + 1], n, j)

(* math.Sqrt(n) for an integer n >= 1: the float64 m * 2^(-k), m of 53     *)
(* bits in four limbs, rounded to nearest (up when the remainder exceeds   *)
(* res; the two are never equal).                                          *)
Float64Sqrt(n) ==
    LET zero == [hi |-> 0, lo |-> 0]
        st == SqrtDigits([res |-> zero, rem |-> zero, k |-> 0], n, 15)
        m  == IF WideLess(st.res, st.rem) THEN WideScale(st.res, 1, 1) ELSE st.res
    IN  [m |-> <<m.lo % LimbBase, m.lo \div LimbBase,
                 m.hi % LimbBase, m.hi \div LimbBase>>,
         k |-> st.k]

RECURSIVE CarryFrom(_, _, _)
CarryFrom(x, i, c) ==
    IF i > Len(x) THEN <<>>
    ELSE <<(x[i] + c) % LimbBase>> \o CarryFrom(x, i + 1, (x[i] + c) \div LimbBase)

Normalize(x) == CarryFrom(x, 1, 0)

(* x * m for a small m, and x + v * LimbBase^(p-1). *)
Scale(x, m) == Normalize([i \in 1..Len(x) |-> x[i] * m])

AddAt(x, p, v) == Normalize([x EXCEPT ![p] = @ + v])

RECURSIVE LessFrom(_, _, _)
LessFrom(x, y, i) ==
    IF i = 0 THEN FALSE
    ELSE IF x[i] # y[i] THEN x[i] < y[i]
    ELSE LessFrom(x, y, i - 1)

Less(x, y) == LessFrom(x, y, Len(x))

Mul(x, y) ==
    Normalize([k \in 1..(Len(x) + Len(y)) |->
        SumTo([i \in 1..Len(x) |->
                 IF k + 1 - i \in 1..Len(y) THEN x[i] * y[k + 1 - i] ELSE 0],
              Len(x))])

(* t * 2^e as 8 limbs, for an integer t < 2^31. *)
ShiftedInteger(t, e) ==
    LET q == e \div 14
        limb(i) == IF i \in 1..3 THEN (t \div LimbBase^(i - 1)) % LimbBase ELSE 0
    IN  Scale([i \in 1..8 |-> limb(i - q)], 2^(e % 14))

(* aMagnitude * bMagnitude < t in float64, the magnitudes being            *)
(* math.Sqrt(aMag2) and math.Sqrt(bMag2) and t * t = aMag2 * bMag2: the    *)
(* exact product of the two 53-bit values, rounded to 53 bits (to nearest, *)
(* ties to even), falls below t.  Half a unit of the last place is 2^52    *)
(* when the product has 106 bits and 2^51 when it has 105.                 *)
Float64ProductBelow(aMag2, bMag2, t) ==
    LET a == Float64Sqrt(aMag2)
        b == Float64Sqrt(bMag2)
        product == Mul(a.m, b.m)
        half == IF product[8] >= 2^7 THEN 2^10 ELSE 2^9
    IN  Less(AddAt(product, 4, half), ShiftedInteger(t, a.k + b.k))

(* A slip of `>` into `>=`: a score equal to the threshold passes. *)
ExceedsThresholdOrEqual(s) ==
    /\ ~IsNaN(s)
    /\ s.dot > 0
    /\ ThresholdDen * ThresholdDen * s.dot * s.dot
         >= ThresholdNum * ThresholdNum * s.aMag2 * s.bMag2

(* `score > similarityThreshold` (line 348) on the float64 score            *)
(* dot / (sqrt(aMag2) * sqrt(bMag2)).  A NaN compares false.  When the      *)
(* exact cosine differs from 1/2 the rounding errors (a few 2^-53) cannot   *)
(* change the side: 4 dot^2 and aMag2 * bMag2 are integers below 2^31.      *)
(* When the exact cosine is 1/2 the score exceeds 0.5 exactly when the      *)
(* rounded product of the magnitudes falls below 2 * dot (the quotient      *)
(* then rounds above 0.5; at 2 * dot it is 0.5).                            *)
ExceedsThreshold(s) ==
    /\ ~IsNaN(s)
    /\ s.dot > 0
    /\ IF ThresholdDen * ThresholdDen * s.dot * s.dot
            = ThresholdNum * ThresholdNum * s.aMag2 * s.bMag2
       THEN Float64ProductBelow(s.aMag2, s.bMag2, ThresholdDen * s.dot)
       ELSE ThresholdDen * ThresholdDen * s.dot * s.dot
              > ThresholdNum * ThresholdNum * s.aMag2 * s.bMag2

(* The scan of FindReference, lines 338-353, from store position i on.  The *)
(* inner loop over `result` (342-346) only `continue`s itself: it skips     *)
(* nothing, so every reference over the threshold is appended.  A panic of  *)
(* CalculateSimilarity ends the scan.                                       *)
RECURSIVE ScanReferences(_, _, _, _)
ScanReferences(embedding, refs, i, result) ==
    IF i > Len(refs) THEN [kind |-> "ok", result |-> result]
    ELSE LET s == CalculateSimilarity(embedding, refs[i].Embedding)
         IN  IF s.kind = "panic" THEN [kind |-> "panic", result |-> <<>>]
             ELSE ScanReferences(embedding, refs, i + 1,
                      IF ExceedsThreshold(s) THEN Append(result, refs[i])
                      ELSE result)

FindReferenceScan(embedding, refs) == ScanReferences(embedding, refs, 1, <<>>)

----------------------------------------------------------------------------
(* The external collaborators' answers *)

(* What doPost can meet (lines 247-261): "fail" is an error of client.Do, a *)
(* status other than 200 or an unreadable body; "ok" a 200 with its body.   *)
Transports == {"fail", "ok"}

(* Bodies of the embeddings endpoint: not JSON, JSON with an empty `data`, *)
(* or JSON carrying one vector.                                            *)
EmbeddingBodies ==
    {[json |-> FALSE, data |-> <<>>], [json |-> TRUE, data |-> <<>>]}
      \cup {[json |-> TRUE, data |-> <<e>>] : e \in Embeddings}

EmbeddingResponses ==
    {[transport |-> "fail", body |-> [json |-> FALSE, data |-> <<>>]]}
      \cup {[transport |-> "ok", body |-> b] : b \in EmbeddingBodies}

(* The message content the model writes for the expansion prompt: text     *)
(* that is not JSON, an object without "queries", or {"queries": [...]}.   *)
ExpandContents ==
    {[json |-> FALSE, hasQueries |-> FALSE, queries |-> <<>>],
     [json |-> TRUE, hasQueries |-> FALSE, queries |-> <<>>]}
      \cup {[json |-> TRUE, hasQueries |-> TRUE, queries |-> qs] : qs \in QuerySeqs}

(* The citations the model may write: none, one citing a stored file name, *)
(* one citing a file name that no directory entry has.                     *)
CitedFiles == {"a.txt", "ghost.txt"}

CitationLists ==
    {<<>>} \cup {<<[Claim |-> "claim", References |-> <<[File |-> f, Exerpt |-> "x"]>>]>> :
                    f \in CitedFiles}

(* The message content the model writes for the response prompt: text that *)
(* is not JSON, an object without "commentary", or the full object.        *)
CitedContents ==
    {[json |-> FALSE, hasCommentary |-> FALSE, commentary |-> "", citations |-> <<>>],
     [json |-> TRUE, hasCommentary |-> FALSE, commentary |-> "", citations |-> <<>>]}
      \cup {[json |-> TRUE, hasCommentary |-> TRUE, commentary |-> "summary",
             citations |-> c] : c \in CitationLists}

(* Bodies of the chat completions endpoint for a set of possible contents. *)
CompletionResponses(contents) ==
    {[transport |-> "fail", json |-> FALSE, choices |-> <<>>],
     [transport |-> "ok", json |-> FALSE, choices |-> <<>>],
     [transport |-> "ok", json |-> TRUE, choices |-> <<>>]}
      \cup {[transport |-> "ok", json |-> TRUE, choices |-> <<c>>] : c \in contents}

----------------------------------------------------------------------------
(* Calls and parsing.  An outcome is [kind, value]: "fatal" is log.Fatal    *)
(* (os.Exit(1)), "panic" a run-time panic, "ok" a returned value.           *)

Fatal == [kind |-> "fatal", value |-> <<>>]
Panic == [kind |-> "panic", value |-> <<>>]
Ok(v) == [kind |-> "ok", value |-> <<v>>]

(* doPost, lines 237-264: every failure is log.Fatalf. *)
doPost(transport) == IF transport = "ok" THEN "body" ELSE "fatal"

(* GenerateEmbedding, lines 370-377: doPost, fromJSON (fatal when the body *)
(* is not JSON), then Data[0] (a panic when `data` is empty).              *)
GenerateEmbedding(resp) ==
    IF doPost(resp.transport) = "fatal" THEN Fatal
    ELSE IF ~resp.body.json THEN Fatal
    ELSE IF Len(resp.body.data) = 0 THEN Panic
    ELSE Ok(resp.body.data[1])

(* GenerateCompletion, lines 357-367, with Content() (167-169): doPost,    *)
(* fromJSON, then Choices[0] (a panic when `choices` is empty).            *)
GenerateCompletion(resp) ==
    IF doPost(resp.transport) = "fatal" THEN Fatal
    ELSE IF ~resp.json THEN Fatal
    ELSE IF Len(resp.choices) = 0 THEN Panic
    ELSE Ok(resp.choices[1])

(* ExpandQuery, lines 379-389: fromJSON of the content into                *)
(* QueryExpansionResponse; a missing "queries" leaves Queries empty.  The  *)
(* user's query is in the prompt only: it is not added to Queries.         *)
ExpandQuery(query, resp) ==
    LET c == GenerateCompletion(resp)
    IN  IF c.kind # "ok" THEN c
        ELSE IF ~c.value[1].json THEN Fatal
        ELSE Ok([Queries |-> IF c.value[1].hasQueries THEN c.value[1].queries
                             ELSE <<>>])

(* GenerateCompletionWithCitations, lines 391-402: fromJSON of the content *)
(* into CitedResponse; a missing "commentary" leaves Commentary "".        *)
GenerateCompletionWithCitations(query, refs, resp) ==
    LET c == GenerateCompletion(resp)
    IN  IF c.kind # "ok" THEN c
        ELSE IF ~c.value[1].json THEN Fatal
        ELSE Ok([Commentary |-> IF c.value[1].hasCommentary
                                THEN c.value[1].commentary ELSE "",
                 Citations  |-> c.value[1].citations])

(* TMPL_INDEX, lines 16-39: the page shows the commentary and, per         *)
(* citation, its claim and one link per reference, made of File alone.     *)
RenderIndex(response) ==
    [commentary |-> response.Commentary,
     citations  |-> [i \in 1..Len(response.Citations) |->
                       [claim |-> response.Citations[i].Claim,
                        links |-> [j \in 1..Len(response.Citations[i].References) |->
                                     [file |-> response.Citations[i].References[j].File]]]]]

----------------------------------------------------------------------------
(* The references directory *)

FileNames == <<"a.txt", "b.txt">>

ContentOf(name) == IF name = "a.txt" THEN "fact A"
                   ELSE IF name = "b.txt" THEN "fact B"
                   ELSE ""

Entry(name, isDir, readable) ==
    [name |-> name, isDir |-> isDir, readable |-> readable,
     content |-> IF isDir THEN "" ELSE ContentOf(name)]

(* A regular file is absent, readable or unreadable; "sub" is absent or a  *)
(* directory.  os.ReadDir lists the entries sorted by name.                *)
FileStates == {"absent", "file", "unreadable"}

Listing(a, b, sub) ==
    (IF a = "absent" THEN <<>> ELSE <<Entry("a.txt", FALSE, a = "file")>>)
      \o (IF b = "absent" THEN <<>> ELSE <<Entry("b.txt", FALSE, b = "file")>>)
      \o (IF sub THEN <<Entry("sub", TRUE, TRUE)>> ELSE <<>>)

DirListings == {Listing(a, b, sub) : a \in FileStates, b \in FileStates, sub \in BOOLEAN}

(* The listings the server development starts from: readable files beside  *)
(* a sub-directory.                                                        *)
ServedListings == {Listing(a, b, TRUE) : a \in {"absent", "file"}, b \in {"absent", "file"}}

----------------------------------------------------------------------------
(* State *)

IdleRequest ==
    [pc |-> "idle", method |-> "", query |-> "", queries |-> <<>>, idx |-> 0,
     found |-> <<>>, calls |-> <<>>, doc |-> <<>>, page |-> <<>>]

(* The process as main starts, before LoadReferences. *)
Started ==
    /\ phase = "loading"
    /\ loadIdx = 0
    /\ references = <<>>
    /\ generated = <<>>
    /\ req = [r \in Requests |-> IdleRequest]
    /\ simA = <<>>
    /\ simOut = <<>>
    /\ simPair = <<>>

Init == dirEntries \in ServedListings /\ Started

LoadInit == dirEntries \in DirListings /\ Started

(* log.Fatal*, or a panic on the main goroutine: the process is gone. *)
Exit == phase' = "exited"

----------------------------------------------------------------------------
(* Startup: main, lines 430-447, and LoadReferences, lines 307-334 *)

(* os.ReadDir, lines 308-311: an error is fatal. *)
ReadDir ==
    /\ phase = "loading" /\ loadIdx = 0
    /\ \E ok \in BOOLEAN :
         IF ok THEN loadIdx' = 1 /\ UNCHANGED phase
         ELSE Exit /\ UNCHANGED loadIdx
    /\ UNCHANGED <<dirEntries, references, generated, req, simA, simOut, simPair>>

(* LoadEntry without the IsDir test of lines 314-316: a sub-directory is  *)
(* read (as empty) and embedded like a file.                              *)
LoadEntryNoDirSkip ==
    /\ phase = "loading" /\ loadIdx \in 1..Len(dirEntries)
    /\ LET file == dirEntries[loadIdx]
       IN  IF ~file.readable
           THEN Exit /\ UNCHANGED <<loadIdx, references, generated>>
           ELSE \E resp \in EmbeddingResponses :
                  LET embedding == GenerateEmbedding(resp)
                  IN  IF embedding.kind # "ok"
                      THEN Exit /\ UNCHANGED <<loadIdx, references, generated>>
                      ELSE /\ references' = Append(references,
                                 [File |-> file.name, Exerpt |-> file.content,
                                  Embedding |-> embedding.value[1]])
                           /\ generated' = Append(generated,
                                 [text |-> file.content,
                                  embedding |-> embedding.value[1]])
                           /\ loadIdx' = loadIdx + 1
                           /\ UNCHANGED phase
    /\ UNCHANGED <<dirEntries, req, simA, simOut, simPair>>

(* One pass of the loop, lines 313-333: a directory is skipped, an         *)
(* unreadable file is fatal, a failed embedding call ends the process, and *)
(* otherwise the file becomes the next reference.                          *)
LoadEntry ==
    /\ phase = "loading" /\ loadIdx \in 1..Len(dirEntries)
    /\ LET file == dirEntries[loadIdx]
       IN  IF file.isDir
           THEN loadIdx' = loadIdx + 1 /\ UNCHANGED <<phase, references, generated>>
           ELSE IF ~file.readable
           THEN Exit /\ UNCHANGED <<loadIdx, references, generated>>
           ELSE \E resp \in EmbeddingResponses :
                  LET embedding == GenerateEmbedding(resp)
                  IN  IF embedding.kind # "ok"
                      THEN Exit /\ UNCHANGED <<loadIdx, references, generated>>
                      ELSE /\ references' = Append(references,
                                 [File |-> file.name, Exerpt |-> file.content,
                                  Embedding |-> embedding.value[1]])
                           /\ generated' = Append(generated,
                                 [text |-> file.content,
                                  embedding |-> embedding.value[1]])
                           /\ loadIdx' = loadIdx + 1
                           /\ UNCHANGED phase
    /\ UNCHANGED <<dirEntries, req, simA, simOut, simPair>>

(* http.ListenAndServe, line 446, reached when LoadReferences returned. *)
ListenAndServe ==
    /\ phase = "loading" /\ loadIdx = Len(dirEntries) + 1
    /\ phase' = "serving"
    /\ UNCHANGED <<dirEntries, loadIdx, references, generated, req, simA, simOut, simPair>>

----------------------------------------------------------------------------
(* Handler, lines 404-428: one goroutine per request *)

CompletionCall(prompt, text) == [api |-> "completion", prompt |-> prompt, text |-> text]

EmbeddingCall(text) == [api |-> "embedding", prompt |-> "", text |-> text]

(* A slip that embeds the query a second time (say, inside the scan). *)
CallsOfFindReferenceTwice(query) == <<EmbeddingCall(query), EmbeddingCall(query)>>

(* The external calls of one FindReference(query): GenerateEmbedding once, *)
(* line 337, before the scan.                                              *)
CallsOfFindReference(query) == <<EmbeddingCall(query)>>

Page(status, response) == [status |-> status, response |-> response]

InFlight == {"expand", "embed", "compose"}

(* A goroutine that ends without returning loses its live locals (the loop *)
(* position, the local slice).                                             *)
Gone(rec, pc) == [rec EXCEPT !.pc = pc, !.idx = 0, !.found = <<>>]

(* How a failing step of request r ends.  log.Fatal is os.Exit(1): the     *)
(* process ends and with it every other handler still running.  A panic is *)
(* recovered by net/http, which drops the request and keeps serving.       *)
Crash(r, rec, kind) ==
    IF kind = "fatal"
    THEN /\ Exit
         /\ req' = [q \in Requests |->
                      IF q = r THEN Gone(rec, "fatal")
                      ELSE IF req[q].pc \in InFlight THEN Gone(req[q], "killed")
                      ELSE req[q]]
    ELSE /\ UNCHANGED phase
         /\ req' = [req EXCEPT ![r] = Gone(rec, "panicked")]

(* case http.MethodGet, lines 420-424: the page with no response. *)
Handler_Get(r) ==
    /\ phase = "serving" /\ req[r].pc = "idle"
    /\ req' = [req EXCEPT ![r] = [@ EXCEPT !.pc = "done", !.method = "GET",
                                            !.page = <<Page("200", <<>>)>>]]
    /\ UNCHANGED <<phase, dirEntries, loadIdx, references, generated, simA, simOut, simPair>>

(* default, lines 425-426: 405. *)
Handler_Default(r) ==
    /\ phase = "serving" /\ req[r].pc = "idle"
    /\ \E m \in Methods \ {"POST", "GET"} :
         req' = [req EXCEPT ![r] = [@ EXCEPT !.pc = "done", !.method = m,
                                              !.page = <<Page("405", <<>>)>>]]
    /\ UNCHANGED <<phase, dirEntries, loadIdx, references, generated, simA, simOut, simPair>>

(* case http.MethodPost, lines 408-411: the form value and the empty local *)
(* slice `references` (here `found`), up to the call of ExpandQuery.       *)
Handler_Post(r) ==
    /\ phase = "serving" /\ req[r].pc = "idle"
    /\ \E query \in UserQueries :
         req' = [req EXCEPT ![r] = [@ EXCEPT !.pc = "expand", !.method = "POST",
                                              !.query = query, !.found = <<>>]]
    /\ UNCHANGED <<phase, dirEntries, loadIdx, references, generated, simA, simOut, simPair>>

(* ExpandQuery(query).Queries, line 412: the loop ranges over the model's  *)
(* queries alone.                                                          *)
ExpandStep(r) ==
    /\ phase = "serving" /\ req[r].pc = "expand"
    /\ \E resp \in CompletionResponses(ExpandContents) :
         LET rec == [req[r] EXCEPT
                       !.calls = Append(@, CompletionCall("expand", req[r].query))]
             out == ExpandQuery(req[r].query, resp)
         IN  IF out.kind # "ok" THEN Crash(r, rec, out.kind)
             ELSE /\ req' = [req EXCEPT ![r] =
                        [rec EXCEPT !.queries = out.value[1].Queries,
                                    !.idx = 1,
                                    !.pc = IF Len(out.value[1].Queries) = 0
                                           THEN "compose" ELSE "embed"]]
                  /\ UNCHANGED phase
    /\ UNCHANGED <<dirEntries, loadIdx, references, generated, simA, simOut, simPair>>

(* FindReferenceStep without the local declaration of line 411: the       *)
(* append of line 413 then grows the package-level `references`.          *)
FindReferenceStepGlobalAppend(r) ==
    /\ phase = "serving" /\ req[r].pc = "embed"
    /\ \E resp \in EmbeddingResponses :
         LET query == req[r].queries[req[r].idx]
             rec == [req[r] EXCEPT !.calls = @ \o CallsOfFindReference(query)]
             embedding == GenerateEmbedding(resp)
         IN  IF embedding.kind # "ok"
             THEN Crash(r, rec, embedding.kind) /\ UNCHANGED references
             ELSE LET scan == FindReferenceScan(embedding.value[1], references)
                  IN  IF scan.kind # "ok"
                      THEN Crash(r, rec, scan.kind) /\ UNCHANGED references
                      ELSE /\ req' = [req EXCEPT ![r] =
                                 [rec EXCEPT !.idx = @ + 1,
                                             !.pc = IF req[r].idx = Len(req[r].queries)
                                                    THEN "compose" ELSE "embed"]]
                           /\ references' = references \o scan.result
                           /\ UNCHANGED phase
    /\ UNCHANGED <<dirEntries, loadIdx, generated, simA, simOut, simPair>>

(* One pass of the loop, lines 412-414: FindReference(query) embeds the    *)
(* query, scans the global `references` and its result is appended to the  *)
(* handler's local slice.                                                  *)
FindReferenceStep(r) ==
    /\ phase = "serving" /\ req[r].pc = "embed"
    /\ \E resp \in EmbeddingResponses :
         LET query == req[r].queries[req[r].idx]
             rec == [req[r] EXCEPT !.calls = @ \o CallsOfFindReference(query)]
             embedding == GenerateEmbedding(resp)
         IN  IF embedding.kind # "ok" THEN Crash(r, rec, embedding.kind)
             ELSE LET scan == FindReferenceScan(embedding.value[1], references)
                  IN  IF scan.kind # "ok" THEN Crash(r, rec, scan.kind)
                      ELSE /\ req' = [req EXCEPT ![r] =
                                 [rec EXCEPT !.found = @ \o scan.result,
                                             !.idx = @ + 1,
                                             !.pc = IF req[r].idx = Len(req[r].queries)
                                                    THEN "compose" ELSE "embed"]]
                           /\ UNCHANGED phase
    /\ UNCHANGED <<dirEntries, loadIdx, references, generated, simA, simOut, simPair>>

(* Lines 416-419: GenerateCompletionWithCitations(query, references) with  *)
(* the user's query and the local slice, rendered into the page as parsed. *)
(* `doc` keeps the `choices` the endpoint answered with, when it did.      *)
ComposeStep(r) ==
    /\ phase = "serving" /\ req[r].pc = "compose"
    /\ \E resp \in CompletionResponses(CitedContents) :
         LET rec == [req[r] EXCEPT
                       !.calls = Append(@, CompletionCall("response", req[r].query)),
                       !.doc = IF doPost(resp.transport) = "fatal" \/ ~resp.json
                               THEN <<>> ELSE <<resp.choices>>]
             out == GenerateCompletionWithCitations(req[r].query, req[r].found, resp)
         IN  IF out.kind # "ok" THEN Crash(r, rec, out.kind)
             ELSE /\ req' = [req EXCEPT ![r] =
                        [rec EXCEPT !.page = <<Page("200", <<RenderIndex(out.value[1])>>)>>,
                                    !.idx = 0, !.found = <<>>, !.pc = "done"]]
                  /\ UNCHANGED phase
    /\ UNCHANGED <<dirEntries, loadIdx, references, generated, simA, simOut, simPair>>

Next ==
    \/ ReadDir
    \/ LoadEntry
    \/ ListenAndServe
    \/ \E r \in Requests : Handler_Get(r)
    \/ \E r \in Requests : Handler_Default(r)
    \/ \E r \in Requests : Handler_Post(r)
    \/ \E r \in Requests : ExpandStep(r)
    \/ \E r \in Requests : FindReferenceStep(r)
    \/ \E r \in Requests : ComposeStep(r)

Spec == Init /\ [][Next]_vars

(* Startup over every listing, up to the first page served. *)
LoadNext ==
    \/ ReadDir
    \/ LoadEntry
    \/ ListenAndServe
    \/ \E r \in Requests : Handler_Get(r)

SpecLoad == LoadInit /\ [][LoadNext]_vars

----------------------------------------------------------------------------
(* The lookup on its own: FindReference's scan and CalculateSimilarity     *)
(* applied to every store and query embedding of a bounded set, the        *)
(* dimensionalities MaxDim - 1 and MaxDim mixed.  Beside the vectors of    *)
(* components 0 and 1 the set holds those of dimension MaxDim with two     *)
(* components 3: among the pairs of exact cosine 1/2 the float64 score     *)
(* then comes out below 0.5 (<<1,1,0>>, <<0,1,1>>), at 0.5 (<<1,1,0>>,     *)
(* <<0,3,3>>) and above it (<<3,3,0>>, <<0,3,3>>).                         *)

SimComponents == {0, 1}

SimVectors ==
    UNION {[1..n -> SimComponents] : n \in (MaxDim - 1)..MaxDim}
      \cup {[i \in 1..MaxDim |-> 3 * v[i]] :
               v \in {w \in [1..MaxDim -> SimComponents] : SumTo(w, MaxDim) = 2}}

SimStores ==
    UNION {{[i \in 1..n |-> [File |-> FileNames[i], Exerpt |-> ContentOf(FileNames[i]),
                             Embedding |-> es[i]]] : es \in [1..n -> SimVectors]} :
             n \in 0..Len(FileNames)}

SimInit ==
    /\ phase = "lookup"
    /\ dirEntries = <<>>
    /\ loadIdx = 0
    /\ references \in SimStores
    /\ generated = <<>>
    /\ req = [r \in Requests |-> IdleRequest]
    /\ simA \in SimVectors
    /\ simOut = <<>>
    /\ simPair = <<>>

(* The scan of FindReference over the store. *)
SimFindReference ==
    /\ phase = "lookup" /\ simOut = <<>> /\ simPair = <<>>
    /\ simOut' = <<FindReferenceScan(simA, references)>>
    /\ UNCHANGED <<phase, dirEntries, loadIdx, references, generated, req, simA, simPair>>

(* CalculateSimilarity of the query embedding and one stored embedding. *)
SimCalculateSimilarity ==
    /\ phase = "lookup" /\ simOut = <<>> /\ simPair = <<>>
    /\ \E i \in 1..Len(references) :
         simPair' = <<[b |-> references[i].Embedding,
                       out |-> CalculateSimilarity(simA, references[i].Embedding)]>>
    /\ UNCHANGED <<phase, dirEntries, loadIdx, references, generated, req, simA, simOut>>

SimNext == SimFindReference \/ SimCalculateSimilarity

SpecSim == SimInit /\ [][SimNext]_vars

----------------------------------------------------------------------------
(* Properties *)

StoreIds == {references[i].File : i \in 1..Len(references)}

NoDuplicateFiles(refs) ==
    \A i, j \in 1..Len(refs) : i # j => refs[i].File # refs[j].File

RegularFiles == SelectSeq(dirEntries, LAMBDA e : ~e.isDir)

(* C1: the candidate facts a POST request hands to the Answer Composer     *)
(* hold each fact identifier at most once, also when two expanded queries  *)
(* match the same fact.                                                    *)
C1_CandidatesDeduplicated ==
    \A r \in Requests : req[r].pc = "compose" => NoDuplicateFiles(req[r].found)

(* C2: every reference of a rendered answer carries the outcome of a       *)
(* lookup of its identifier in the Fact Store: flagged as missing exactly  *)
(* when the identifier is not in the store.                                *)
C2_ReferencesVerified ==
    \A r \in Requests :
      (req[r].pc = "done" /\ req[r].method = "POST") =>
        \A p \in {req[r].page[1].response[1]} :
          \A i \in 1..Len(p.citations) :
            \A j \in 1..Len(p.citations[i].links) :
              LET link == p.citations[i].links[j]
              IN  /\ "missing" \in DOMAIN link
                  /\ link.missing = (link.file \notin StoreIds)

(* C3: a failed external call or a failed parse while handling a request   *)
(* fails that request only: the process keeps running and no other request *)
(* is lost.                                                                *)
C3_FailureIsolated ==
    \A r \in Requests :
      req[r].pc \in {"fatal", "panicked"} =>
        /\ phase = "serving"
        /\ \A q \in Requests : req[q].pc # "killed"

(* C4: the queries embedded and matched for a user query include the       *)
(* user's own query, whatever variants the model returned.                 *)
C4_OriginalQueryEmbedded ==
    \A r \in Requests :
      (req[r].method = "POST" /\ req[r].pc \in {"compose", "done"}) =>
        \E k \in 1..Len(req[r].calls) : req[r].calls[k] = EmbeddingCall(req[r].query)

(* Cosine similarity of two vectors of one dimensionality against the      *)
(* threshold, from the definition dot(a,b) / (|a| |b|).                    *)
Dot(a, b) == SumTo([i \in 1..Len(a) |-> a[i] * b[i]], Len(a))

CosineAbove(a, b) ==
    /\ Dot(a, b) > 0
    /\ ThresholdDen * ThresholdDen * Dot(a, b) * Dot(a, b)
         > ThresholdNum * ThresholdNum * Dot(a, a) * Dot(b, b)

CosineAtThreshold(a, b) ==
    /\ Dot(a, b) > 0
    /\ ThresholdDen * ThresholdDen * Dot(a, b) * Dot(a, b)
         = ThresholdNum * ThresholdNum * Dot(a, a) * Dot(b, b)

OneDimensionality ==
    \A i \in 1..Len(references) : Len(references[i].Embedding) = Len(simA)

(* C5 as the specification states it, on the exact cosine: for a query    *)
(* embedding of the store's dimensionality, the lookup returns exactly the *)
(* stored facts whose cosine similarity to the query is strictly greater   *)
(* than the threshold, a fact at the threshold excluded, in store order.   *)
C5_LookupStrictInStoreOrder ==
    (simOut # <<>> /\ OneDimensionality) =>
       /\ simOut[1].kind = "ok"
       /\ simOut[1].result =
            SelectSeq(references, LAMBDA f : CosineAbove(simA, f.Embedding))

(* The float64 score of a pair whose exact cosine is the threshold lies    *)
(* above it: the magnitudes' rounded product is below 2 * dot.             *)
RoundsAbove(a, b) ==
    Float64ProductBelow(Dot(a, a), Dot(b, b), ThresholdDen * Dot(a, b))

(* C5: for a query embedding of the store's dimensionality, the lookup     *)
(* returns, in store order, exactly the stored facts whose similarity as   *)
(* computed in float64 is strictly greater than the threshold.  For the    *)
(* embeddings of SimVectors that is: every fact whose exact cosine is      *)
(* above the threshold, no fact whose exact cosine is below it or          *)
(* undefined, and a fact whose exact cosine equals the threshold exactly   *)
(* when rounding puts its computed score above it.                         *)
C5_LookupByComputedScore ==
    (simOut # <<>> /\ OneDimensionality) =>
       /\ simOut[1].kind = "ok"
       /\ simOut[1].result =
            SelectSeq(references,
                      LAMBDA f : \/ CosineAbove(simA, f.Embedding)
                                 \/ /\ CosineAtThreshold(simA, f.Embedding)
                                    /\ RoundsAbove(simA, f.Embedding))

(* Two facts exactly at the threshold: the computed score of the first   *)
(* is not above it, rounding lifts that of the second above it; the        *)
(* lookup returned the second alone.                                       *)
C5_Witness ==
    /\ simOut # <<>> /\ OneDimensionality
    /\ Len(references) = 2
    /\ CosineAtThreshold(simA, references[1].Embedding)
    /\ ~RoundsAbove(simA, references[1].Embedding)
    /\ CosineAtThreshold(simA, references[2].Embedding)
    /\ RoundsAbove(simA, references[2].Embedding)
    /\ simOut[1].result = <<references[2]>>

(* The store LoadReferences is to build from the listing: one fact per     *)
(* regular file, in listing order, with the embedding generated for it.    *)
LoadedFrom(k) ==
    [File      |-> RegularFiles[k].name,
     Exerpt    |-> RegularFiles[k].content,
     Embedding |-> generated[k].embedding]

StoreComplete ==
    /\ Len(references) = Len(RegularFiles)
    /\ Len(generated) = Len(RegularFiles)
    /\ \A k \in 1..Len(RegularFiles) :
         /\ references[k] = LoadedFrom(k)
         /\ generated[k].text = RegularFiles[k].content

(* C6: the store is fully loaded before any request is handled, and once   *)
(* startup is over no step of any request, in any interleaving, changes    *)
(* it.                                                                     *)
C6_StoreReadOnly ==
    /\ []((\E r \in Requests : req[r].pc # "idle") =>
            (phase # "loading" /\ StoreComplete))
    /\ [][phase # "loading" => references' = references]_vars

(* Two requests under way against a store of two facts: one has retrieved  *)
(* candidates, the other has been answered.                                *)
C6_Witness ==
    /\ phase = "serving" /\ Len(references) = 2
    /\ req["r1"].pc = "compose" /\ Len(req["r1"].found) >= 2
    /\ req["r2"].pc = "done" /\ req["r2"].method = "POST"

(* The completion for the response prompt was malformed, lacked the        *)
(* commentary, or the endpoint answered with no choices.                   *)
BadCompletion(rec) ==
    /\ rec.doc # <<>>
    /\ \/ Len(rec.doc[1]) = 0
       \/ /\ Len(rec.doc[1]) > 0
          /\ (~rec.doc[1][1].json \/ ~rec.doc[1][1].hasCommentary)

(* C7: such a completion makes composing fail with a CompositionError for  *)
(* that request: no panic, no end of the process, no page rendered from    *)
(* it.                                                                     *)
C7_CompositionErrorReported ==
    \A r \in Requests :
      BadCompletion(req[r]) =>
        /\ req[r].pc = "CompositionError"
        /\ phase = "serving"
        /\ req[r].page = <<>>

(* C8: when the query embedding and a stored embedding differ in length,   *)
(* in either direction, the similarity computation reports a               *)
(* SimilarityError: no score, no out-of-range panic.                       *)
C8_DimensionMismatchReported ==
    (simPair # <<>> /\ Len(simA) # Len(simPair[1].b)) =>
       simPair[1].out.kind = "SimilarityError"

(* C9: once serving, the store holds exactly one fact per regular file     *)
(* directly in the directory and none for a sub-directory; each fact has   *)
(* the file's name, its content and the embedding generated for that       *)
(* content; no identifier is shared; and no file was unreadable: a failed  *)
(* listing, read or embedding never leads to serving.                      *)
C9_LoadedStore ==
    phase = "serving" =>
       /\ StoreComplete
       /\ NoDuplicateFiles(references)
       /\ \A k \in 1..Len(dirEntries) : dirEntries[k].readable

(* Two regular files beside a sub-directory, loaded, and a page served. *)
C9_Witness ==
    /\ phase = "serving"
    /\ Len(RegularFiles) = 2 /\ Len(dirEntries) = 3
    /\ StoreIds = {"a.txt", "b.txt"}
    /\ \E r \in Requests : req[r].pc = "done"

(* The external calls of a handled POST: the expansion, one embedding per  *)
(* expanded query in order, the composition.                               *)
ExpectedCalls(rec) ==
    <<CompletionCall("expand", rec.query)>>
      \o [i \in 1..Len(rec.queries) |-> EmbeddingCall(rec.queries[i])]
      \o <<CompletionCall("response", rec.query)>>

(* C10: a handled POST request has made exactly one expansion call, then   *)
(* one embedding call per expanded query in the order returned, then one   *)
(* composition call; a handled request of another method has made none.    *)
C10_CallOrder ==
    \A r \in Requests :
      req[r].pc = "done" =>
        req[r].calls = IF req[r].method = "POST" THEN ExpectedCalls(req[r]) ELSE <<>>

(* A POST answered after two different expanded queries, and a GET. *)
C10_Witness ==
    /\ req["r1"].pc = "done" /\ req["r1"].method = "POST"
    /\ req["r1"].queries = <<"q2", "q1">>
    /\ req["r2"].pc = "done" /\ req["r2"].method = "GET"

====
